---- MODULE Spec2Model ----
(***************************************************************************)
(* A model of embuild's bindgen module (src/bindgen.rs): the Factory       *)
(* builder, sysroot detection through the linker (try_get_sysroot), the    *)
(* C++ standard library include lookup (get_cpp_includes), the assembly of *)
(* the clang argument list (Factory::create_builder) and the rustfmt       *)
(* fallback chain (cargo_fmt_file, run_for_file).                          *)
(*                                                                         *)
(* Strings and paths are sequences of one-character strings, so that path  *)
(* parsing, formatting and ordering are computed and not assumed.          *)
(***************************************************************************)
EXTENDS Integers, Sequences, FiniteSets, TLC

VARIABLES
    factory,        \* the Factory value: clang_args, linker, mcu, force_cpp, sysroot
    rustc_linker,   \* environment: the value of RUSTC_LINKER (an Option)
    print_sysroot,  \* environment: what `<linker> --print-sysroot` answers (a Result)
    cpp_root,       \* file system: what read_dir({sysroot}/include/c++) answers (a Result)
    canonical,      \* file system: what fs::canonicalize(sysroot) answers (a Result)
    call,           \* the arguments of the call in progress or finished
    pc,             \* position of the caller
    queried,        \* executables run with --print-sysroot, in order
    probes,         \* file system calls made, in order
    result,         \* the Result the finished call returned
    fmt_env,        \* environment: which steps of run_for_file fail
    fmt_log,        \* formatter attempts started, in order
    warnings        \* number of cargo warnings printed

vars == <<factory, rustc_linker, print_sysroot, cpp_root, canonical, call, pc,
          queried, probes, result, fmt_env, fmt_log, warnings>>

-----------------------------------------------------------------------------
(* Option and Result values.                                               *)

None == [some |-> FALSE]
Some(v) == [some |-> TRUE, val |-> v]
Ok(v) == [ok |-> TRUE, val |-> v]
Err(e) == [ok |-> FALSE, err |-> e]

-----------------------------------------------------------------------------
(* Strings.                                                                *)

\* The characters that occur in the modelled strings, in ASCII code order.
Ascii ==
    <<"+", "-", ".", "/",
      "0", "1", "2", "3", "4", "5", "6", "7", "8", "9", "=",
      "A", "B", "C", "D", "E", "F", "G", "H", "I", "J", "K", "L", "M", "N", "O",
      "P", "Q", "R", "S", "T", "U", "V", "W", "X", "Y", "Z", "_",
      "a", "b", "c", "d", "e", "f", "g", "h", "i", "j", "k", "l", "m", "n", "o",
      "p", "q", "r", "s", "t", "u", "v", "w", "x", "y", "z">>

\* The byte of a character (its position in Ascii; only the order matters).
Byte(c) == CHOOSE i \in 1..Len(Ascii) : Ascii[i] = c

\* Ordering of byte strings, as Ord for [u8] / OsStr: -1, 0 or 1.
RECURSIVE CmpBytes(_, _)
CmpBytes(a, b) ==
    IF a = <<>> /\ b = <<>> THEN 0
    ELSE IF a = <<>> THEN -1
    ELSE IF b = <<>> THEN 1
    ELSE IF Byte(Head(a)) < Byte(Head(b)) THEN -1
    ELSE IF Byte(Head(a)) > Byte(Head(b)) THEN 1
    ELSE CmpBytes(Tail(a), Tail(b))

ends_with(s, suf) ==
    /\ Len(suf) <= Len(s)
    /\ SubSeq(s, Len(s) - Len(suf) + 1, Len(s)) = suf

\* str::strip_suffix: the Option of s without its suffix.
strip_suffix(s, suf) ==
    IF ends_with(s, suf) THEN Some(SubSeq(s, 1, Len(s) - Len(suf))) ELSE None

\* Position of the last occurrence of character c in s, 0 when there is none.
LastIndexOf(s, c) ==
    IF \E i \in 1..Len(s) : s[i] = c
    THEN CHOOSE i \in 1..Len(s) : s[i] = c /\ \A j \in (i+1)..Len(s) : s[j] # c
    ELSE 0

-----------------------------------------------------------------------------
(* std::path, for Unix paths.                                              *)

SEP == "/"
DOT == "."

\* The path without its trailing separators (a lone root keeps its one).
RECURSIVE TrimSeps(_)
TrimSeps(p) ==
    IF Len(p) > 1 /\ p[Len(p)] = SEP THEN TrimSeps(SubSeq(p, 1, Len(p) - 1)) ELSE p

\* Where the final component starts in a trimmed path.
NameStart(p) == LastIndexOf(TrimSeps(p), SEP) + 1

\* Path::file_name: the final component, None for "", "/" and a final "..".
file_name(p) ==
    LET t == TrimSeps(p)
        n == SubSeq(t, NameStart(p), Len(t))
    IN  IF n = <<>> \/ n = <<SEP>> \/ n = <<DOT, DOT>> \/ n = <<DOT>> THEN None ELSE Some(n)

\* Path::parent as a string: what PathBuf::pop leaves.
parent(p) ==
    LET t == TrimSeps(p)
        i == NameStart(p)
    IN  IF i = 1 THEN <<>>
        ELSE IF i = 2 THEN <<SEP>>
        ELSE TrimSeps(SubSeq(t, 1, i - 1))

\* rsplit_file_at_dot of std::path: <<before, after>> around the last dot of a file name.
rsplit_file_at_dot(file) ==
    LET i == LastIndexOf(file, DOT)
    IN  IF file = <<DOT, DOT>> THEN <<Some(file), None>>
        ELSE IF i = 0 THEN <<None, Some(file)>>
        ELSE IF i = 1 THEN <<Some(file), None>>
        ELSE <<Some(SubSeq(file, 1, i - 1)), Some(SubSeq(file, i + 1, Len(file)))>>

\* Path::file_stem: before.or(after).
file_stem(p) ==
    IF ~file_name(p).some THEN None
    ELSE LET s == rsplit_file_at_dot(file_name(p).val)
         IN  IF s[1].some THEN s[1] ELSE s[2]

\* Path::extension: before.and(after).
extension(p) ==
    IF ~file_name(p).some THEN None
    ELSE LET s == rsplit_file_at_dot(file_name(p).val)
         IN  IF s[1].some THEN s[2] ELSE None

\* PathBuf::push of a relative component.
push(p, name) ==
    IF p = <<>> \/ p[Len(p)] = SEP THEN p \o name ELSE p \o <<SEP>> \o name

\* Path::join.
join(p, name) == push(p, name)

\* Path::with_file_name: set_file_name on a copy (pop when there is a file name, push).
with_file_name(p, name) ==
    IF file_name(p).some THEN push(parent(p), name) ELSE push(p, name)

\* PathBuf::set_extension: truncate right after the file stem, then add "." ext
\* unless ext is empty.  Nothing happens without a file name.
set_extension(p, ext) ==
    IF ~file_name(p).some THEN p
    ELSE LET t    == TrimSeps(p)
             stem == file_stem(p).val
             cut  == SubSeq(t, 1, NameStart(p) - 1 + Len(stem))
         IN  IF ext = <<>> THEN cut ELSE cut \o <<DOT>> \o ext


\* The pieces of a path between separators, empty pieces dropped.
RECURSIVE Split(_)
Split(p) ==
    IF p = <<>> THEN <<>>
    ELSE IF Head(p) = SEP THEN Split(Tail(p))
    ELSE LET n == IF \E i \in 1..Len(p) : p[i] = SEP
                  THEN (CHOOSE i \in 1..Len(p) : p[i] = SEP /\ \A j \in 1..(i-1) : p[j] # SEP) - 1
                  ELSE Len(p)
         IN  <<SubSeq(p, 1, n)>> \o Split(SubSeq(p, n + 1, Len(p)))

\* Path::components, each as <<rank, bytes>>; the rank is the variant's place in
\* enum Component (RootDir, CurDir, ParentDir, Normal), which derives Ord.
Components(p) ==
    LET parts == Split(p)
        named == [i \in 1..Len(parts) |->
                    IF parts[i] = <<DOT, DOT>> THEN <<3, <<>> >> ELSE <<4, parts[i]>>]
        kept  == SelectSeq(named, LAMBDA c : c[2] # <<DOT>>)
    IN  IF p # <<>> /\ Head(p) = SEP THEN << <<1, <<>> >> >> \o kept ELSE kept

\* Ord for Path: the component lists compared lexicographically; -1, 0 or 1.
RECURSIVE CmpComponents(_, _)
CmpComponents(a, b) ==
    IF a = <<>> /\ b = <<>> THEN 0
    ELSE IF a = <<>> THEN -1
    ELSE IF b = <<>> THEN 1
    ELSE IF Head(a)[1] < Head(b)[1] THEN -1
    ELSE IF Head(a)[1] > Head(b)[1] THEN 1
    ELSE IF CmpBytes(Head(a)[2], Head(b)[2]) # 0 THEN CmpBytes(Head(a)[2], Head(b)[2])
    ELSE CmpComponents(Tail(a), Tail(b))

\* Faulty variant: the comparison of the fold is turned around.
PathLe(a, b) == CmpComponents(Components(a), Components(b)) <= 0

PathGe(a, b) == CmpComponents(Components(a), Components(b)) >= 0

-----------------------------------------------------------------------------
(* String literals of the source.                                          *)

S_gcc == <<"g", "c", "c">>
S_dash_gcc == <<"-", "g", "c", "c">>
S_ld == <<"l", "d">>
S_include == <<"i", "n", "c", "l", "u", "d", "e">>
S_cpp == <<"c", "+", "+">>
S_c == <<"c">>
S_backward == <<"b", "a", "c", "k", "w", "a", "r", "d">>
S_x == <<"-", "x">>
S_I == <<"-", "I">>
S_D == <<"-", "D">>
S_sysroot_eq == <<"-", "-", "s", "y", "s", "r", "o", "o", "t", "=">>
S_D_bindgen == <<"-", "D", "_", "_", "b", "i", "n", "d", "g", "e", "n">>
S_fno_inline ==
    <<"-", "f", "n", "o", "-", "i", "n", "l", "i", "n", "e", "-",
      "f", "u", "n", "c", "t", "i", "o", "n", "s">>

-----------------------------------------------------------------------------
(* try_get_sysroot.                                                        *)

\* Faulty variant: RUSTC_LINKER is preferred to the configured linker.
resolve_linker_env_first(linker, env) ==
    IF env.some THEN env ELSE IF linker.some THEN linker ELSE None

\* The linker to use: the configured one, else RUSTC_LINKER, else none.
resolve_linker(linker, env) ==
    IF linker.some THEN linker ELSE IF env.some THEN env ELSE None

\* The file stem of the linker when it is "gcc" or ends with "-gcc".
gcc_file_stem(linker) ==
    LET stem == file_stem(linker)
    IN  IF stem.some /\ (stem.val = S_gcc \/ ends_with(stem.val, S_dash_gcc))
        THEN stem ELSE None

\* The executable that is asked for the sysroot.
ld_linker(linker) ==
    IF gcc_file_stem(linker).some
    THEN LET stem == gcc_file_stem(linker).val
             ld   == with_file_name(linker, strip_suffix(stem, S_gcc).val \o S_ld)
         IN  IF extension(linker).some THEN set_extension(ld, extension(linker).val) ELSE ld
    ELSE linker

\* try_get_sysroot: the executables run and the Result returned, given the
\* environment (RUSTC_LINKER, and what the queried executable answers).
try_get_sysroot(linker, env, answer) ==
    LET l == resolve_linker(linker, env)
    IN  IF ~l.some
        THEN [queried |-> <<>>, res |-> Err("Could not determine linker")]
        ELSE [queried |-> <<ld_linker(l.val)>>,
              res |-> IF answer.ok THEN Ok(answer.val)
                      ELSE Err("Could not determine sysroot from linker")]

-----------------------------------------------------------------------------
(* get_cpp_includes.                                                       *)

cpp_includes_root(sysroot) == join(join(sysroot, S_include), S_cpp)

\* Faulty variant: the fold keeps the entry read last instead of the greatest.
fold_step_last(ao, sr) == IF sr.ok THEN Some(sr.val) ELSE ao

\* One step of the fold over the directory entries: ao is the Option so far,
\* sr the next entry's Result<PathBuf>.
fold_step(ao, sr) ==
    IF ao.some
    THEN IF sr.ok THEN (IF PathGe(ao.val, sr.val) THEN ao ELSE Some(sr.val)) ELSE ao
    ELSE IF sr.ok THEN Some(sr.val) ELSE None

RECURSIVE fold(_, _)
fold(ao, entries) ==
    IF entries = <<>> THEN ao ELSE fold(fold_step(ao, Head(entries)), Tail(entries))

\* The selected version directory: the fold over the entries' paths.
cpp_version(sysroot, entries) ==
    fold(None, [i \in 1..Len(entries) |->
                   IF entries[i].ok
                   THEN Ok(join(cpp_includes_root(sysroot), entries[i].val))
                   ELSE entries[i]])

\* Faulty variant: the sysroot is canonicalized before the version directory is looked for.
get_cpp_includes_canon_first(sysroot, dir, canon) ==
    IF ~dir.ok THEN [probes |-> <<"read_dir">>, res |-> Err("read_dir")]
    ELSE IF ~canon.ok
    THEN [probes |-> <<"read_dir", "canonicalize">>, res |-> Err("canonicalize")]
    ELSE LET v == cpp_version(sysroot, dir.val)
         IN  IF ~v.some THEN [probes |-> <<"read_dir", "canonicalize">>, res |-> Ok(<<>>)]
             ELSE [probes |-> <<"read_dir", "canonicalize">>,
                   res |-> Ok(<<S_I \o v.val, S_I \o join(v.val, S_backward)>>
                              \o (IF file_name(canon.val).some
                                  THEN <<S_I \o join(v.val, file_name(canon.val).val)>>
                                  ELSE <<>>))]

\* get_cpp_includes: the file system calls made and the Result returned, given
\* what read_dir and canonicalize answer.
get_cpp_includes(sysroot, dir, canon) ==
    IF ~dir.ok THEN [probes |-> <<"read_dir">>, res |-> Err("read_dir")]
    ELSE LET v == cpp_version(sysroot, dir.val)
         IN  IF ~v.some THEN [probes |-> <<"read_dir">>, res |-> Ok(<<>>)]
             ELSE IF ~canon.ok
             THEN [probes |-> <<"read_dir", "canonicalize">>, res |-> Err("canonicalize")]
             ELSE [probes |-> <<"read_dir", "canonicalize">>,
                   res |-> Ok(<<S_I \o v.val, S_I \o join(v.val, S_backward)>>
                              \o (IF file_name(canon.val).some
                                  THEN <<S_I \o join(v.val, file_name(canon.val).val)>>
                                  ELSE <<>>))]


-----------------------------------------------------------------------------
(* Filter and Factory.                                                     *)

FilterFields ==
    {"allow_types", "allow_functions", "allow_vars", "block_types",
     "block_functions", "block_vars", "block_files"}

\* Factory::default(): what Factory::new() returns.
FactoryDefault ==
    [clang_args |-> <<>>, linker |-> None, mcu |-> None, force_cpp |-> FALSE,
     sysroot |-> None]

\* Factory::from_cmake of a compile group with the given defines, include
\* paths, language ("C" or "Cpp") and Option of a sysroot path.
from_cmake(defines, includes, language, sysroot) ==
    [clang_args |-> [i \in 1..Len(defines) |-> S_D \o defines[i]]
                    \o [i \in 1..Len(includes) |-> S_I \o includes[i]],
     linker |-> None,
     force_cpp |-> (language = "Cpp"),
     mcu |-> None,
     sysroot |-> sysroot]

with_clang_args(self, clang_args) ==
    [self EXCEPT !.clang_args = self.clang_args \o clang_args]

with_sysroot(self, sysroot) == [self EXCEPT !.sysroot = Some(sysroot)]

with_linker(self, linker) == [self EXCEPT !.linker = Some(linker)]

-----------------------------------------------------------------------------
(* Factory::create_builder.                                                *)

\* Faulty variant: force_cpp is ignored.
effective_cpp_arg_only(force_cpp, cpp) == cpp

\* The effective language mode.
effective_cpp(force_cpp, cpp) == force_cpp \/ cpp

\* Faulty variant: a configured linker is asked even though a sysroot is set.
sysroot_of_linker_first(self, env, answer) ==
    IF self.linker.some \/ ~self.sysroot.some
    THEN try_get_sysroot(self.linker, env, answer)
    ELSE [queried |-> <<>>, res |-> Ok(self.sysroot.val)]

\* self.sysroot.clone().map_or_else(|| try_get_sysroot(&self.linker), Ok)
sysroot_of(self, env, answer) ==
    IF self.sysroot.some
    THEN [queried |-> <<>>, res |-> Ok(self.sysroot.val)]
    ELSE try_get_sysroot(self.linker, env, answer)

sysroot_args(sysroot) ==
    <<S_sysroot_eq \o sysroot, S_I \o join(sysroot, S_include)>>

language_args(cpp) == <<S_x, IF cpp THEN S_cpp ELSE S_c>>

\* The C++ include flags, looked up only in C++ mode.
cpp_args_of(cpp, sysroot, dir, canon) ==
    IF cpp THEN get_cpp_includes(sysroot, dir, canon)
    ELSE [probes |-> <<>>, res |-> Ok(<<>>)]

\* Faulty variant: the sysroot flags are given to clang before the caller's arguments.
assemble_sysroot_first(clang_args, sysroot, cpp, cpp_args) ==
    <<S_D_bindgen>> \o sysroot_args(sysroot) \o clang_args \o language_args(cpp)
    \o cpp_args \o <<S_fno_inline>>

\* The clang arguments in the order of the builder calls.
assemble_clang_args(clang_args, sysroot, cpp, cpp_args) ==
    <<S_D_bindgen>> \o clang_args \o sysroot_args(sysroot) \o language_args(cpp)
    \o cpp_args \o <<S_fno_inline>>

\* The builder before any filter is applied; every rule list starts empty.
base_builder(clang_args, sysroot, cpp, cpp_args) ==
    [use_core |-> TRUE,
     layout_tests |-> FALSE,
     formatter |-> "None",
     derive_default |-> TRUE,
     clang_args |-> assemble_clang_args(clang_args, sysroot, cpp, cpp_args),
     generate_inline_functions |-> cpp,
     rules |-> [k \in FilterFields |-> <<>>]]

\* Faulty variant: a present but empty list adds a rule of its own.
apply_list_empty_rule(rules, list) ==
    IF list.some
    THEN (IF list.val = <<>> THEN rules \o <<"">> ELSE rules \o list.val)
    ELSE rules

\* One `if let Some(list) = filter.field { for item in list { builder.rule(item) } }`:
\* the rules of that kind after the loop.
apply_list(rules, list) == IF list.some THEN rules \o list.val ELSE rules

\* `if let Some(filter) = filter { ... }` over the seven lists.
apply_filter(builder, filter) ==
    IF filter.some
    THEN [builder EXCEPT !.rules =
              [k \in FilterFields |-> apply_list(builder.rules[k], filter.val[k])]]
    ELSE builder

\* The end of create_builder, from the resolved sysroot sr and the C++ include
\* lookup inc (both with what they ran): the builder, filtered.
finish_builder(self, cpp, filter, sr, inc) ==
    IF ~inc.res.ok
    THEN [queried |-> sr.queried, probes |-> inc.probes, res |-> inc.res]
    ELSE [queried |-> sr.queried, probes |-> inc.probes,
          res |-> Ok(apply_filter(
                      base_builder(self.clang_args, sr.res.val, cpp, inc.res.val),
                      filter))]

\* create_builder after the sysroot lookup sr: `?` returns its error, otherwise
\* the C++ include flags are looked up.
builder_in(self, cpp, filter, sr, dir, canon) ==
    IF ~sr.res.ok
    THEN [queried |-> sr.queried, probes |-> <<>>, res |-> sr.res]
    ELSE finish_builder(self, cpp, filter, sr, cpp_args_of(cpp, sr.res.val, dir, canon))

\* create_builder: the executables queried, the file system calls made and the
\* Result<bindgen::Builder> returned.
create_builder(self, cpp_arg, filter, env, answer, dir, canon) ==
    builder_in(self, effective_cpp(self.force_cpp, cpp_arg), filter,
               sysroot_of(self, env, answer), dir, canon)

-----------------------------------------------------------------------------
(* rustfmt fallback chain: cargo_fmt_file and run_for_file.                *)

\* Faulty variant: the chain goes on whether or not the attempt failed.
fmt_next_always(stage, is_err) ==
    CASE stage = "rustfmt" -> "rustup_stable"
      [] stage = "rustup_stable" -> "rustup_nightly"
      [] stage = "rustup_nightly" -> IF is_err THEN "print_warning" ELSE "return"

\* Where cargo_fmt_file goes after the attempt `stage` ended: the && chain
\* evaluates the next operand only after an is_err() that is true, and the
\* warning is printed when the last one is true as well.
fmt_next(stage, is_err) ==
    IF ~is_err THEN "return"
    ELSE CASE stage = "rustfmt" -> "rustup_stable"
           [] stage = "rustup_stable" -> "rustup_nightly"
           [] stage = "rustup_nightly" -> "print_warning"

-----------------------------------------------------------------------------
(* Inputs.                                                                 *)

MaxArgs == 2
MaxEntries == 3

P_SysA == <<"/", "o", "p", "t", "/", "s", "r">>
P_SysB == <<"/", "t", "/", "x", "t">>
P_Root == <<SEP>>
P_gcc == <<"/", "b", "/", "x", "-", "g", "c", "c">>
P_ld == <<"/", "b", "/", "l", "d">>
P_env == <<"/", "e", "/", "g", "c", "c", ".", "e", "x", "e">>

A_DX == <<"-", "D", "X">>
A_Iinc == <<"-", "I", "i", "n", "c">>

\* Linker paths for the sysroot query.
LinkerPaths ==
    {<<"/", "o", "p", "t", "/", "t", "o", "o", "l", "c", "h", "a", "i", "n", "/", "b", "i", "n", "/", "a", "r", "m", "-", "n", "o", "n", "e", "-", "e", "a", "b", "i", "-", "g", "c", "c">>,
     <<"/", "u", "s", "r", "/", "b", "i", "n", "/", "g", "c", "c", ".", "e", "x", "e">>,
     <<"/", "u", "s", "r", "/", "b", "i", "n", "/", "g", "c", "c">>,
     <<"g", "c", "c">>,
     <<"/", "u", "s", "r", "/", "b", "i", "n", "/", "l", "d">>,
     <<"/", "u", "s", "r", "/", "b", "i", "n", "/", "e", "g", "c", "c">>,
     <<"/", "o", "p", "t", "/", "a", "r", "m", ".", "v", "7", "-", "g", "c", "c", ".", "e", "x", "e">>,
     <<"/", "o", "p", "t", "/", "x", "-", "g", "c", "c", "-", "1", "0">>,
     <<"/", "o", "p", "t", "/", "x", "-", "g", "c", "c", ".", "1", "0">>,
     <<"/", "o", "p", "t", "/", ".", "x", "-", "g", "c", "c">>,
     <<"/", "o", "p", "t", "/", "-", "g", "c", "c">>,
     <<"/", "o", "p", "t", "/", "g", "c", "c", "/", "c", "c">>,
     <<"/", "u", "s", "r", "/", "b", "i", "n", "/", "c", "l", "a", "n", "g">>,
     <<"/", "u", "s", "r", "/", "b", "i", "n", "/", "c", "c", ".", "e", "x", "e">>}

\* Sequences over S of length k, and of length at most n.
RECURSIVE SeqsOfLen(_, _)
SeqsOfLen(S, k) ==
    IF k = 0 THEN {<<>>} ELSE {Append(s, x) : s \in SeqsOfLen(S, k - 1), x \in S}

SeqUpTo(S, n) == UNION {SeqsOfLen(S, k) : k \in 0..n}

V9 == <<"9">>
V10 == <<"1", "0">>
V11 == <<"1", "1">>
VersionNames == {V9, V10, V11}

\* What read_dir can yield: each entry is the name of a directory entry or an
\* error, no name twice.
DirListings(n) ==
    {d \in SeqUpTo({Ok(v) : v \in VersionNames} \cup {Err("entry")}, n) :
        \A i, j \in 1..Len(d) : (i # j /\ d[i].ok /\ d[j].ok) => d[i].val # d[j].val}

Pending == [pending |-> TRUE]
NoCall == [op |-> "none"]
NoFmtEnv ==
    [generate |-> TRUE, write |-> TRUE, rustfmt |-> TRUE, rustup_stable |-> TRUE,
     rustup_nightly |-> TRUE]


\* Filters: every list absent, empty, or holding two patterns.
FilterLists == {None, Some(<<>>), Some(<<"a", "b">>)}
AllFilters == {Some(f) : f \in [FilterFields -> FilterLists]} \cup {None}
FewFilters ==
    {None, Some([k \in FilterFields |-> None]),
     Some([k \in FilterFields |-> Some(<<"a", "b">>)])}

-----------------------------------------------------------------------------
(* Building a Factory and creating a builder from it.                      *)

NoFmt == fmt_env = NoFmtEnv /\ fmt_log = <<>> /\ warnings = 0

Init ==
    /\ factory = FactoryDefault
    /\ pc = "start"
    /\ rustc_linker \in {None, Some(P_env)}
    /\ print_sysroot \in {Err("spawn"), Ok(P_SysB)}
    /\ cpp_root \in {Err("NotFound"), Ok(<<>>), Ok(<<Err("entry")>>), Ok(<<Ok(V9)>>),
                     Ok(<<Ok(V9), Ok(V10)>>)}
    /\ canonical \in {Err("NotFound"), Ok(P_Root), Ok(P_SysB)}
    /\ call = NoCall
    /\ queried = <<>>
    /\ probes = <<>>
    /\ result = Pending
    /\ NoFmt

New ==
    /\ pc = "start"
    /\ factory' = FactoryDefault
    /\ pc' = "factory"
    /\ UNCHANGED <<rustc_linker, print_sysroot, cpp_root, canonical, call, queried,
                   probes, result, fmt_env, fmt_log, warnings>>

FromCmake ==
    /\ pc = "start"
    /\ \E defines \in {<<>>, <<<<"X">>>>}, includes \in {<<>>, <<<<"i", "n", "c">>>>},
          language \in {"C", "Cpp"}, sysroot \in {None, Some(P_SysA)} :
          /\ Len(defines) + Len(includes) <= MaxArgs
          /\ factory' = from_cmake(defines, includes, language, sysroot)
    /\ pc' = "factory"
    /\ UNCHANGED <<rustc_linker, print_sysroot, cpp_root, canonical, call, queried,
                   probes, result, fmt_env, fmt_log, warnings>>

WithClangArgs ==
    /\ pc = "factory"
    /\ \E args \in {a \in SeqUpTo({A_DX, A_Iinc}, MaxArgs) : a # <<>>} :
          /\ Len(factory.clang_args) + Len(args) <= MaxArgs
          /\ factory' = with_clang_args(factory, args)
    /\ UNCHANGED <<rustc_linker, print_sysroot, cpp_root, canonical, call, pc, queried,
                   probes, result, fmt_env, fmt_log, warnings>>

WithSysroot ==
    /\ pc = "factory"
    /\ factory' = with_sysroot(factory, P_SysA)
    /\ UNCHANGED <<rustc_linker, print_sysroot, cpp_root, canonical, call, pc, queried,
                   probes, result, fmt_env, fmt_log, warnings>>

WithLinker ==
    /\ pc = "factory"
    /\ \E linker \in {P_gcc, P_ld} : factory' = with_linker(factory, linker)
    /\ UNCHANGED <<rustc_linker, print_sysroot, cpp_root, canonical, call, pc, queried,
                   probes, result, fmt_env, fmt_log, warnings>>

\* The call returns r: what it ran is logged and its Result kept.
Returns(r, c) ==
    /\ call' = c
    /\ queried' = queried \o r.queried
    /\ probes' = probes \o r.probes
    /\ result' = r.res
    /\ pc' = IF r.res.ok THEN "built" ELSE "failed"
    /\ UNCHANGED <<factory, rustc_linker, print_sysroot, cpp_root, canonical, fmt_env,
                   fmt_log, warnings>>

CreateBuilderWith(cpp, filter, op) ==
    Returns(create_builder(factory, cpp, filter, rustc_linker, print_sysroot, cpp_root,
                           canonical),
            [op |-> op, cpp |-> cpp, filter |-> filter])

\* Factory::builder
Builder == pc = "factory" /\ CreateBuilderWith(FALSE, None, "builder")

\* Factory::cpp_builder
CppBuilder == pc = "factory" /\ CreateBuilderWith(TRUE, None, "cpp_builder")

CreateBuilder ==
    /\ pc = "factory"
    /\ \E cpp \in BOOLEAN, filter \in FewFilters :
          CreateBuilderWith(cpp, filter, "create_builder")

Next ==
    \/ New
    \/ FromCmake
    \/ WithClangArgs
    \/ WithSysroot
    \/ WithLinker
    \/ Builder
    \/ CppBuilder
    \/ CreateBuilder

Spec == Init /\ [][Next]_vars


-----------------------------------------------------------------------------
(* try_get_sysroot on its own, over the linker paths.                      *)

InitSysroot ==
    /\ \E linker \in {None} \cup {Some(l) : l \in LinkerPaths} :
          factory = [FactoryDefault EXCEPT !.linker = linker]
    /\ pc = "try_get_sysroot"
    /\ rustc_linker \in {None, Some(P_env), Some(P_ld)}
    /\ print_sysroot \in {Err("spawn"), Ok(P_SysB)}
    /\ cpp_root = Ok(<<>>)
    /\ canonical = Ok(P_SysB)
    /\ call = NoCall
    /\ queried = <<>>
    /\ probes = <<>>
    /\ result = Pending
    /\ NoFmt

TryGetSysroot ==
    /\ pc = "try_get_sysroot"
    /\ LET r == try_get_sysroot(factory.linker, rustc_linker, print_sysroot)
       IN  /\ queried' = queried \o r.queried
           /\ result' = r.res
    /\ call' = [op |-> "try_get_sysroot"]
    /\ pc' = "returned"
    /\ UNCHANGED <<factory, rustc_linker, print_sysroot, cpp_root, canonical, probes,
                   fmt_env, fmt_log, warnings>>

NextSysroot == TryGetSysroot

SpecSysroot == InitSysroot /\ [][NextSysroot]_vars

-----------------------------------------------------------------------------
(* get_cpp_includes on its own, over the directory listings.               *)

InitCpp ==
    /\ factory = FactoryDefault
    /\ pc = "get_cpp_includes"
    /\ rustc_linker = None
    /\ print_sysroot = Err("spawn")
    /\ cpp_root \in {Err("NotFound")} \cup {Ok(d) : d \in DirListings(MaxEntries)}
    /\ canonical \in {Err("NotFound"), Ok(P_Root), Ok(P_SysA), Ok(P_SysB)}
    /\ call \in {[op |-> "get_cpp_includes", sysroot |-> s] : s \in {P_SysA, P_SysB}}
    /\ queried = <<>>
    /\ probes = <<>>
    /\ result = Pending
    /\ NoFmt

GetCppIncludes ==
    /\ pc = "get_cpp_includes"
    /\ LET r == get_cpp_includes(call.sysroot, cpp_root, canonical)
       IN  /\ probes' = probes \o r.probes
           /\ result' = r.res
    /\ pc' = "returned"
    /\ UNCHANGED <<factory, rustc_linker, print_sysroot, cpp_root, canonical, call,
                   queried, fmt_env, fmt_log, warnings>>

NextCpp == GetCppIncludes

SpecCpp == InitCpp /\ [][NextCpp]_vars

-----------------------------------------------------------------------------
(* create_builder over the filters, with an explicit sysroot.              *)

InitFilter ==
    /\ \E args \in {<<>>, <<A_DX>>}, force_cpp \in BOOLEAN :
          factory = [FactoryDefault EXCEPT !.clang_args = args,
                                           !.force_cpp = force_cpp,
                                           !.sysroot = Some(P_SysA)]
    /\ pc = "factory"
    /\ rustc_linker = None
    /\ print_sysroot = Err("spawn")
    /\ cpp_root = Ok(<<Ok(V9)>>)
    /\ canonical = Ok(P_SysA)
    /\ call = NoCall
    /\ queried = <<>>
    /\ probes = <<>>
    /\ result = Pending
    /\ NoFmt

CreateBuilderFiltered ==
    /\ pc = "factory"
    /\ \E cpp \in BOOLEAN, filter \in AllFilters :
          CreateBuilderWith(cpp, filter, "create_builder")

NextFilter == CreateBuilderFiltered

SpecFilter == InitFilter /\ [][NextFilter]_vars

-----------------------------------------------------------------------------
(* run_for_file: generate, write, then cargo_fmt_file.                     *)

FmtEnvs ==
    [generate : BOOLEAN, write : BOOLEAN, rustfmt : BOOLEAN, rustup_stable : BOOLEAN,
     rustup_nightly : BOOLEAN]

InitFmt ==
    /\ factory = FactoryDefault
    /\ pc = "generate"
    /\ rustc_linker = None
    /\ print_sysroot = Err("spawn")
    /\ cpp_root = Ok(<<>>)
    /\ canonical = Ok(P_SysA)
    /\ call \in {[op |-> "run_for_file", output_file |-> f] :
                    f \in {"OUT_DIR/bindings.rs", "src/bindings.rs"}}
    /\ queried = <<>>
    /\ probes = <<>>
    /\ result = Pending
    /\ fmt_env \in FmtEnvs
    /\ fmt_log = <<>>
    /\ warnings = 0

\* builder.generate().map_err(..)?
Generate ==
    /\ pc = "generate"
    /\ IF fmt_env.generate
       THEN pc' = "write" /\ UNCHANGED result
       ELSE pc' = "done" /\ result' = Err("Failed to generate bindings")
    /\ UNCHANGED <<factory, rustc_linker, print_sysroot, cpp_root, canonical, call,
                   queried, probes, fmt_env, fmt_log, warnings>>

\* bindings.write_to_file(output_file)?
WriteToFile ==
    /\ pc = "write"
    /\ IF fmt_env.write
       THEN pc' = "rustfmt" /\ UNCHANGED result
       ELSE pc' = "done" /\ result' = Err("write_to_file")
    /\ UNCHANGED <<factory, rustc_linker, print_sysroot, cpp_root, canonical, call,
                   queried, probes, fmt_env, fmt_log, warnings>>

\* One operand of the && chain: the command runs and its is_err() decides.
Attempt(stage) ==
    /\ fmt_log' = Append(fmt_log, stage)
    /\ pc' = fmt_next(stage, ~fmt_env[stage])
    /\ UNCHANGED <<factory, rustc_linker, print_sysroot, cpp_root, canonical, call,
                   queried, probes, result, fmt_env, warnings>>

Rustfmt == pc = "rustfmt" /\ Attempt("rustfmt")

RustupStable == pc = "rustup_stable" /\ Attempt("rustup_stable")

RustupNightly == pc = "rustup_nightly" /\ Attempt("rustup_nightly")

PrintWarning ==
    /\ pc = "print_warning"
    /\ warnings' = warnings + 1
    /\ pc' = "return"
    /\ UNCHANGED <<factory, rustc_linker, print_sysroot, cpp_root, canonical, call,
                   queried, probes, result, fmt_env, fmt_log>>

\* cargo_fmt_file returns and run_for_file ends with Ok(()).
Return ==
    /\ pc = "return"
    /\ result' = Ok("unit")
    /\ pc' = "done"
    /\ UNCHANGED <<factory, rustc_linker, print_sysroot, cpp_root, canonical, call,
                   queried, probes, fmt_env, fmt_log, warnings>>

NextFmt ==
    \/ Generate
    \/ WriteToFile
    \/ Rustfmt
    \/ RustupStable
    \/ RustupNightly
    \/ PrintWarning
    \/ Return

SpecFmt == InitFmt /\ [][NextFmt]_vars


-----------------------------------------------------------------------------
(* Properties of create_builder (specification Spec).                      *)

Returned == pc \in {"built", "failed"}

\* The mode and the sysroot a finished create_builder call is expected to use.
CppMode == factory.force_cpp \/ call.cpp
SysrootResolved ==
    \/ factory.sysroot.some
    \/ (factory.linker.some \/ rustc_linker.some) /\ print_sysroot.ok
SysrootUsed == IF factory.sysroot.some THEN factory.sysroot.val ELSE print_sysroot.val

\* seg occupies the positions i, i+1, ... of args.
IsAt(args, i, seg) ==
    /\ i >= 1
    /\ i + Len(seg) - 1 <= Len(args)
    /\ SubSeq(args, i, i + Len(seg) - 1) = seg

StartsWith(s, prefix) == Len(prefix) <= Len(s) /\ SubSeq(s, 1, Len(prefix)) = prefix

SysrootFlags(sysroot) == <<S_sysroot_eq \o sysroot, S_I \o sysroot \o <<SEP>> \o S_include>>

\* A flag that adds a directory below {sysroot}/include/c++.
IsCppInclude(flag, sysroot) ==
    StartsWith(flag, S_I \o sysroot \o <<SEP>> \o S_include \o <<SEP>> \o S_cpp \o <<SEP>>)

\* C1: in the clang arguments of every builder that create_builder returns, the
\* caller's clang_args (in their order) come before the two sysroot flags
\* ("--sysroot=<sysroot>" then "-I<sysroot>/include"), these come before the pair
\* "-x" "c" / "c++", and every C++ include flag comes after that pair.
C1_ArgumentOrder ==
    pc = "built" =>
        LET args == result.val.clang_args
        IN  \E a, b, k \in 1..Len(args) :
                /\ IsAt(args, a, factory.clang_args)
                /\ a + Len(factory.clang_args) <= b
                /\ IsAt(args, b, SysrootFlags(SysrootUsed))
                /\ b + 2 <= k
                /\ \E lang \in {S_c, S_cpp} : IsAt(args, k, <<S_x, lang>>)
                /\ \A i \in 1..Len(args) :
                      IsCppInclude(args[i], SysrootUsed) => i > k + 1

\* C1 witness: a builder with two caller arguments, a detected sysroot and three
\* C++ include flags.
C1_Witness ==
    /\ pc = "built"
    /\ Len(factory.clang_args) = MaxArgs
    /\ ~factory.sysroot.some
    /\ Cardinality({i \in 1..Len(result.val.clang_args) :
                       IsCppInclude(result.val.clang_args[i], SysrootUsed)}) = 3

\* C3: with an explicit sysroot no executable is ever queried for the sysroot,
\* whatever the linker and RUSTC_LINKER are, and the builder's sysroot flags name
\* the explicit path unchanged.
C3_ExplicitSysroot ==
    (Returned /\ factory.sysroot.some) =>
        /\ queried = <<>>
        /\ pc = "built" =>
              IsAt(result.val.clang_args, Len(factory.clang_args) + 2,
                   SysrootFlags(factory.sysroot.val))

\* C3 witness: a builder made with an explicit sysroot while a linker is
\* configured and RUSTC_LINKER is set.
C3_Witness ==
    /\ pc = "built"
    /\ factory.sysroot.some
    /\ factory.linker.some
    /\ rustc_linker.some
    /\ queried = <<>>

\* C4: without explicit sysroot, configured linker and RUSTC_LINKER the call
\* fails with the missing-linker error, runs nothing and returns no builder; a
\* configured linker is the one queried, and RUSTC_LINKER is queried only when no
\* linker is configured.
C4_LinkerChoice ==
    (Returned /\ ~factory.sysroot.some) =>
        /\ (~factory.linker.some /\ ~rustc_linker.some) =>
              /\ pc = "failed"
              /\ result = Err("Could not determine linker")
              /\ queried = <<>>
              /\ probes = <<>>
        /\ factory.linker.some => queried = <<ld_linker(factory.linker.val)>>
        /\ (~factory.linker.some /\ rustc_linker.some) =>
              queried = <<ld_linker(rustc_linker.val)>>

\* C4 witness: the missing-linker failure.
C4_Witness ==
    /\ pc = "failed"
    /\ ~factory.sysroot.some
    /\ ~factory.linker.some
    /\ ~rustc_linker.some
    /\ result = Err("Could not determine linker")

\* C7: in C++ mode with a resolved sysroot, an existing empty include/c++
\* directory gives a builder whose clang arguments are only the fixed ones, the
\* caller's, the sysroot flags and "-x" "c++", and the sysroot is not
\* canonicalized; a directory that cannot be read makes the call fail.
C7_EmptyOrMissingCppDir ==
    (Returned /\ CppMode /\ SysrootResolved) =>
        /\ cpp_root = Ok(<<>>) =>
              /\ pc = "built"
              /\ probes = <<"read_dir">>
              /\ result.val.clang_args =
                    <<S_D_bindgen>> \o factory.clang_args \o SysrootFlags(SysrootUsed)
                    \o <<S_x, S_cpp>> \o <<S_fno_inline>>
        /\ ~cpp_root.ok =>
              /\ pc = "failed"
              /\ result = Err("read_dir")

\* C7 witness: a C++ builder from an empty include/c++ directory, in an
\* environment where canonicalizing the sysroot would have failed.
C7_Witness ==
    /\ pc = "built"
    /\ CppMode
    /\ cpp_root = Ok(<<>>)
    /\ ~canonical.ok
    /\ factory.clang_args # <<>>

\* C10: the mode is C++ exactly when force_cpp or the cpp argument is set: then
\* the language flag is "c++", inline functions are generated and include/c++ is
\* read; otherwise the flag is "c", no C++ include flag is added, include/c++ is
\* never read and a failure can only come from the sysroot lookup.
C10_EffectiveCpp ==
    Returned =>
        /\ pc = "built" =>
              LET args == result.val.clang_args
                  k    == Len(factory.clang_args) + 4
              IN  /\ IsAt(args, k, <<S_x, IF CppMode THEN S_cpp ELSE S_c>>)
                  /\ result.val.generate_inline_functions = CppMode
                  /\ ~CppMode => Len(args) = k + 2
        /\ SysrootResolved => ((probes # <<>>) <=> CppMode)
        /\ ~CppMode =>
              /\ probes = <<>>
              /\ pc = "failed" => ~SysrootResolved

\* C10 witness: builder() on a factory with force_cpp gives a C++ builder.
C10_Witness ==
    /\ pc = "built"
    /\ call.op = "builder"
    /\ factory.force_cpp
    /\ result.val.generate_inline_functions
    /\ probes # <<>>


-----------------------------------------------------------------------------
(* Properties of try_get_sysroot (specification SpecSysroot).              *)

\* The linker try_get_sysroot resolves.
ResolvedLinker == IF factory.linker.some THEN factory.linker.val ELSE rustc_linker.val

\* The path with the trailing "gcc" of its file stem replaced by "ld" and the
\* rest (the dot and the extension, if any) kept, for a file stem that is "gcc"
\* or ends with "-gcc"; the path itself otherwise.
ClaimedQuery(linker) ==
    LET stem == file_stem(linker)
        ext  == extension(linker)
        rest == IF ext.some THEN <<DOT>> \o ext.val ELSE <<>>
        n    == Len(linker) - Len(rest)
    IN  IF stem.some /\ (stem.val = S_gcc \/ ends_with(stem.val, S_dash_gcc))
        THEN SubSeq(linker, 1, n - Len(S_gcc)) \o S_ld \o rest
        ELSE linker

\* C2: the executable queried with --print-sysroot is the resolved linker with
\* the trailing "gcc" of its file stem replaced by "ld" and the extension kept
\* when the file stem is "gcc" or ends with "-gcc", and the resolved linker
\* unchanged otherwise.
C2_GccToLd ==
    (pc = "returned" /\ queried # <<>>) => queried = <<ClaimedQuery(ResolvedLinker)>>

-----------------------------------------------------------------------------
(* Properties of get_cpp_includes (specification SpecCpp).                 *)

\* The names of the entries that enumerate without error.
OkNames(d) == {d[i].val : i \in {j \in 1..Len(d) : d[j].ok}}

VersionDir(sysroot, name) ==
    sysroot \o <<SEP>> \o S_include \o <<SEP>> \o S_cpp \o <<SEP>> \o name

\* The greatest name in byte order.
MaxName(names) == CHOOSE m \in names : \A o \in names : CmpBytes(m, o) >= 0

LastSegment(p) == Split(p)[Len(Split(p))]

\* C5 as stated: with the readable entries exactly 9, 10 and 11 the first C++
\* include flag names the directory 11.
C5_Selects11 ==
    (pc = "returned" /\ cpp_root.ok /\ OkNames(cpp_root.val) = {V9, V10, V11}
        /\ result.ok) =>
        result.val[1] = S_I \o VersionDir(call.sysroot, V11)

\* C5 amended: with the readable entries exactly 9, 10 and 11 the first C++
\* include flag names the directory 9, the greatest in lexicographic order.
C5_Selects9 ==
    (pc = "returned" /\ cpp_root.ok /\ OkNames(cpp_root.val) = {V9, V10, V11}
        /\ result.ok) =>
        result.val[1] = S_I \o VersionDir(call.sysroot, V9)

\* C5 witness: get_cpp_includes has returned flags for the entries 9, 10, 11.
C5_Witness ==
    /\ pc = "returned"
    /\ cpp_root.ok
    /\ OkNames(cpp_root.val) = {V9, V10, V11}
    /\ result.ok
    /\ Len(result.val) = 3

\* C6 as stated: entries that error are skipped, no readable entry gives no
\* flags, and whenever a version is found the result is the three flags for the
\* greatest entry: the directory, its backward subdirectory, and the directory
\* joined with the final segment of the canonicalized sysroot.
C6_AlwaysThreeFlags ==
    (pc = "returned" /\ cpp_root.ok) =>
        LET oks == OkNames(cpp_root.val)
            v   == VersionDir(call.sysroot, MaxName(oks))
        IN  IF oks = {} THEN result = Ok(<<>>)
            ELSE /\ canonical.ok
                 /\ Split(canonical.val) # <<>>
                 /\ result = Ok(<<S_I \o v,
                                  S_I \o v \o <<SEP>> \o S_backward,
                                  S_I \o v \o <<SEP>> \o LastSegment(canonical.val)>>)

\* C6 amended: entries that error are skipped and never fail the call, no
\* readable entry gives no flags, and otherwise the greatest entry in
\* lexicographic order is selected whatever the enumeration order (9 for 9 and
\* 10); the call then fails when the sysroot cannot be canonicalized, returns the
\* directory and its backward subdirectory when the canonical sysroot has no
\* final segment, and these two followed by the directory joined with that
\* final segment otherwise.
C6_GreatestEntryFlags ==
    (pc = "returned" /\ cpp_root.ok) =>
        LET oks == OkNames(cpp_root.val)
            v   == VersionDir(call.sysroot, MaxName(oks))
            two == <<S_I \o v, S_I \o v \o <<SEP>> \o S_backward>>
        IN  /\ oks = {V9, V10} => MaxName(oks) = V9
            /\ IF oks = {} THEN result = Ok(<<>>)
               ELSE IF ~canonical.ok THEN result = Err("canonicalize")
               ELSE IF Split(canonical.val) = <<>> THEN result = Ok(two)
               ELSE result = Ok(two \o <<S_I \o v \o <<SEP>>
                                          \o LastSegment(canonical.val)>>)

\* C6 witness: three flags from a listing whose greatest entry comes first and
\* which holds an entry that errors.
C6_Witness ==
    /\ pc = "returned"
    /\ cpp_root = Ok(<<Ok(V9), Err("entry"), Ok(V10)>>)
    /\ result.ok
    /\ Len(result.val) = 3

-----------------------------------------------------------------------------
(* Properties of the filter (specification SpecFilter).                    *)

\* The builder create_builder returns for this factory, mode and environment
\* with another filter.
BuilderFor(filter) ==
    create_builder(factory, call.cpp, filter, rustc_linker, print_sysroot, cpp_root,
                   canonical).res.val

WithoutList(filter, k) == Some([filter.val EXCEPT ![k] = None])

\* C8 as stated: for every list of the filter that is present and empty, the
\* builder differs from the one made with that list absent.
C8_EmptyListDiffers ==
    (pc = "built" /\ call.filter.some) =>
        \A k \in FilterFields :
            call.filter.val[k] = Some(<<>>) =>
                result.val # BuilderFor(WithoutList(call.filter, k))

\* C8 amended: an absent list applies no rule, a present list applies exactly
\* its patterns in order, so a present empty list applies none either and the
\* builder equals the one made with that list absent.
C8_EmptyListSameAsAbsent ==
    (pc = "built" /\ call.filter.some) =>
        \A k \in FilterFields :
            /\ ~call.filter.val[k].some => result.val.rules[k] = <<>>
            /\ call.filter.val[k].some => result.val.rules[k] = call.filter.val[k].val
            /\ call.filter.val[k] = Some(<<>>) =>
                  result.val = BuilderFor(WithoutList(call.filter, k))

\* C8 witness: a builder made with allow_functions = Some([]) and another list
\* holding patterns.
C8_Witness ==
    /\ pc = "built"
    /\ call.filter.some
    /\ call.filter.val["allow_functions"] = Some(<<>>)
    /\ call.filter.val["block_types"] = Some(<<"a", "b">>)
    /\ result.val.rules["allow_functions"] = <<>>

-----------------------------------------------------------------------------
(* Properties of run_for_file (specification SpecFmt).                     *)

FmtOrder == <<"rustfmt", "rustup_stable", "rustup_nightly">>

AllFmtFail == ~fmt_env.rustfmt /\ ~fmt_env.rustup_stable /\ ~fmt_env.rustup_nightly

\* C9: the formatter attempts run in the order rustfmt, stable, nightly without
\* repetition, each only after generation and the write succeeded and every
\* earlier attempt failed (so none after a success); a warning is printed once,
\* exactly when all three failed; run_for_file then returns Ok, and returns the
\* error with no attempt made when generation or the write fails.
C9_FormatterChain ==
    /\ Len(fmt_log) <= Len(FmtOrder)
    /\ fmt_log = SubSeq(FmtOrder, 1, Len(fmt_log))
    /\ \A i \in 1..Len(fmt_log) : \A j \in 1..(i - 1) : ~fmt_env[fmt_log[j]]
    /\ fmt_log # <<>> => (fmt_env.generate /\ fmt_env.write)
    /\ warnings \in {0, 1}
    /\ warnings = 1 => (AllFmtFail /\ Len(fmt_log) = Len(FmtOrder))
    /\ pc = "done" =>
          IF fmt_env.generate /\ fmt_env.write
          THEN /\ result = Ok("unit")
               /\ (warnings = 1) <=> AllFmtFail
               /\ fmt_log # <<>>
               /\ AllFmtFail \/ fmt_env[fmt_log[Len(fmt_log)]]
          ELSE /\ ~result.ok
               /\ fmt_log = <<>>
               /\ warnings = 0

\* C9 witness: all three attempts failed, one warning, and Ok returned.
C9_Witness ==
    /\ pc = "done"
    /\ fmt_log = FmtOrder
    /\ warnings = 1
    /\ result = Ok("unit")

====
